---- MODULE Spec2Model ----
(***************************************************************************)
(* Model of lib/request/request.js: the request normalizer and the two     *)
(* transport strategies (fetch promise chain, legacy XMLHttpRequest         *)
(* callbacks) of request(requestOptions).                                   *)
(*                                                                          *)
(* JavaScript values are tagged records; text is a TLA+ string; a JS        *)
(* object used as a mapping (headers, a JSON object) is the sequence of     *)
(* its [k, v] entries in insertion order.                                   *)
(***************************************************************************)
EXTENDS Integers, Sequences, FiniteSets, TLC

VARIABLES
    given,            \* per call: the descriptor as the caller passed it
    requestOptions,   \* per call: the descriptor, mutated in place
    wire,             \* per call: what the network will do with the exchange
    pc,               \* per call: position in request() / its promise chain
    sent,             \* per call: sequence of dispatches handed to the transport
    readyState,       \* per call: xhr.readyState (legacy)
    events,           \* per call: transport events that have not fired yet (legacy)
    responseHeaders,  \* per call: `let responseHeaders` (legacy closure)
    headers,          \* per call: `let headers` (fetch closure); TDZ in legacy
    inner,            \* per call: the promise in flight inside the chain
    outcome,          \* per call: the promise request() returned
    uncaught,         \* per call: exceptions thrown out of an event handler
    reads             \* per call: body readers/parsers that were invoked

vars == <<given, requestOptions, wire, pc, sent, readyState, events, responseHeaders,
          headers, inner, outcome, uncaught, reads>>

(***************************************************************************)
(* JavaScript values                                                        *)
(***************************************************************************)
Undefined == [t |-> "undefined"]
Null == [t |-> "null"]
Str(s) == [t |-> "string", s |-> s]
Num(n) == [t |-> "number", n |-> n]
Arr(a) == [t |-> "array", a |-> a]
Obj(o) == [t |-> "object", o |-> o]
\* a non-plain object (Buffer, stream): truthy, neither plain object nor array
Buf(s) == [t |-> "buffer", b |-> s]
KV(k, v) == [k |-> k, v |-> v]

\* JS truthiness, as `if (x)` / `!x` / `a || b` evaluate it
Truthy(v) ==
    CASE v.t = "undefined" -> FALSE
      [] v.t = "null" -> FALSE
      [] v.t = "string" -> v.s # ""
      [] v.t = "number" -> v.n # 0
      [] OTHER -> TRUE

\* lodash/isPlainObject
isPlainObject(v) == v.t = "object"
\* Array.isArray
isArray(v) == v.t = "array"

(***************************************************************************)
(* Text                                                                     *)
(***************************************************************************)
Ch(s, i) == IF i >= 1 /\ i <= Len(s) THEN SubSeq(s, i, i) ELSE ""

LowerLetters == "abcdefghijklmnopqrstuvwxyz"
UpperLetters == "ABCDEFGHIJKLMNOPQRSTUVWXYZ"

UpperChar(c) ==
    IF \E j \in 1..26 : Ch(LowerLetters, j) = c
    THEN Ch(UpperLetters, CHOOSE j \in 1..26 : Ch(LowerLetters, j) = c)
    ELSE c

LowerChar(c) ==
    IF \E j \in 1..26 : Ch(UpperLetters, j) = c
    THEN Ch(LowerLetters, CHOOSE j \in 1..26 : Ch(UpperLetters, j) = c)
    ELSE c

RECURSIVE toUpperCase(_)
toUpperCase(s) ==
    IF s = "" THEN "" ELSE UpperChar(Ch(s, 1)) \o toUpperCase(SubSeq(s, 2, Len(s)))

RECURSIVE toLowerCase(_)
toLowerCase(s) ==
    IF s = "" THEN "" ELSE LowerChar(Ch(s, 1)) \o toLowerCase(SubSeq(s, 2, Len(s)))

\* first index >= from at which sub occurs in s, 0 when it does not
IndexFrom(s, sub, from) ==
    LET hits == {i \in from..(Len(s) - Len(sub) + 1) : SubSeq(s, i, i + Len(sub) - 1) = sub}
    IN IF hits = {} THEN 0 ELSE CHOOSE i \in hits : \A j \in hits : i <= j

Contains(s, sub) == IndexFrom(s, sub, 1) # 0
StartsWith(s, sub) == Len(s) >= Len(sub) /\ SubSeq(s, 1, Len(sub)) = sub
EndsWith(s, sub) == Len(s) >= Len(sub) /\ SubSeq(s, Len(s) - Len(sub) + 1, Len(s)) = sub

\* String.prototype.split(sep)
RECURSIVE split(_, _)
split(s, sep) ==
    LET i == IndexFrom(s, sep, 1)
    IN IF i = 0 THEN <<s>>
       ELSE <<SubSeq(s, 1, i - 1)>> \o split(SubSeq(s, i + Len(sep), Len(s)), sep)

\* String(v): the text a regexp test or JSON.parse sees for a non-string value
ToText(v) ==
    CASE v.t = "string" -> v.s
      [] v.t = "undefined" -> "undefined"
      [] v.t = "null" -> "null"
      [] v.t = "number" -> ToString(v.n)
      [] OTHER -> "[object Object]"

(***************************************************************************)
(* Mappings with string keys (insertion-ordered entries)                    *)
(***************************************************************************)
Has(h, k) == \E j \in 1..Len(h) : h[j].k = k
Get(h, k) ==
    IF Has(h, k) THEN h[CHOOSE j \in 1..Len(h) : h[j].k = k].v ELSE Undefined
Put(h, k, v) ==
    IF Has(h, k)
    THEN [j \in 1..Len(h) |-> IF h[j].k = k THEN KV(k, v) ELSE h[j]]
    ELSE Append(h, KV(k, v))
Delete(h, k) == SelectSeq(h, LAMBDA e : e.k # k)

(***************************************************************************)
(* JSON (the subset without escapes, signs, fractions and exponents)        *)
(***************************************************************************)
Bool(b) == [t |-> "boolean", f |-> b]

RECURSIVE Join(_, _)
Join(parts, sep) ==
    IF parts = <<>> THEN ""
    ELSE IF Len(parts) = 1 THEN parts[1]
    ELSE parts[1] \o sep \o Join(Tail(parts), sep)

Quote(s) == "\"" \o s \o "\""

\* JSON.stringify(value)
RECURSIVE stringify(_)
stringify(v) ==
    CASE v.t = "string" -> Quote(v.s)
      [] v.t = "number" -> ToString(v.n)
      [] v.t = "boolean" -> IF v.f THEN "true" ELSE "false"
      [] v.t = "null" -> "null"
      [] v.t = "array" ->
            "[" \o Join([j \in 1..Len(v.a) |->
                            IF v.a[j].t = "undefined" THEN "null" ELSE stringify(v.a[j])],
                        ",") \o "]"
      [] v.t = "object" ->
            LET kept == SelectSeq(v.o, LAMBDA e : e.v.t # "undefined")
            IN "{" \o Join([j \in 1..Len(kept) |->
                               Quote(kept[j].k) \o ":" \o stringify(kept[j].v)],
                           ",") \o "}"
      [] OTHER -> "{}"

Digits == "0123456789"
IsDigit(c) == c # "" /\ Contains(Digits, c)
DigitValue(c) == IndexFrom(Digits, c, 1) - 1

RECURSIVE SkipSpace(_, _)
SkipSpace(s, i) == IF Ch(s, i) = " " THEN SkipSpace(s, i + 1) ELSE i

RECURSIVE ParseDigits(_, _, _)
ParseDigits(s, i, acc) ==
    IF IsDigit(Ch(s, i)) THEN ParseDigits(s, i + 1, acc * 10 + DigitValue(Ch(s, i)))
    ELSE [ok |-> TRUE, v |-> Num(acc), i |-> i]

ParseFail == [ok |-> FALSE]

RECURSIVE ParseValue(_, _)
RECURSIVE ParseElements(_, _, _)
RECURSIVE ParseMembers(_, _, _)

\* after "[" or ",": one value, then "," or "]"
ParseElements(s, i, acc) ==
    LET r == ParseValue(s, SkipSpace(s, i))
    IN IF ~r.ok THEN ParseFail
       ELSE LET j == SkipSpace(s, r.i)
            IN CASE Ch(s, j) = "," -> ParseElements(s, j + 1, Append(acc, r.v))
                 [] Ch(s, j) = "]" -> [ok |-> TRUE, v |-> Arr(Append(acc, r.v)), i |-> j + 1]
                 [] OTHER -> ParseFail

\* after "{" or ",": "key" : value, then "," or "}"
ParseMembers(s, i, acc) ==
    LET k0 == SkipSpace(s, i)
        k1 == IndexFrom(s, "\"", k0 + 1)
    IN IF Ch(s, k0) # "\"" \/ k1 = 0 THEN ParseFail
       ELSE LET key == SubSeq(s, k0 + 1, k1 - 1)
                c == SkipSpace(s, k1 + 1)
            IN IF Ch(s, c) # ":" THEN ParseFail
               ELSE LET r == ParseValue(s, SkipSpace(s, c + 1))
                    IN IF ~r.ok THEN ParseFail
                       ELSE LET j == SkipSpace(s, r.i)
                                next == Put(acc, key, r.v)
                            IN CASE Ch(s, j) = "," -> ParseMembers(s, j + 1, next)
                                 [] Ch(s, j) = "}" ->
                                        [ok |-> TRUE, v |-> Obj(next), i |-> j + 1]
                                 [] OTHER -> ParseFail

ParseValue(s, i) ==
    LET c == Ch(s, i)
    IN CASE c = "\"" ->
              LET j == IndexFrom(s, "\"", i + 1)
              IN IF j = 0 THEN ParseFail
                 ELSE [ok |-> TRUE, v |-> Str(SubSeq(s, i + 1, j - 1)), i |-> j + 1]
         [] IsDigit(c) -> ParseDigits(s, i, 0)
         [] c = "n" -> IF SubSeq(s \o "    ", i, i + 3) = "null"
                       THEN [ok |-> TRUE, v |-> Null, i |-> i + 4] ELSE ParseFail
         [] c = "t" -> IF SubSeq(s \o "    ", i, i + 3) = "true"
                       THEN [ok |-> TRUE, v |-> Bool(TRUE), i |-> i + 4] ELSE ParseFail
         [] c = "f" -> IF SubSeq(s \o "     ", i, i + 4) = "false"
                       THEN [ok |-> TRUE, v |-> Bool(FALSE), i |-> i + 5] ELSE ParseFail
         [] c = "[" ->
              LET j == SkipSpace(s, i + 1)
              IN IF Ch(s, j) = "]" THEN [ok |-> TRUE, v |-> Arr(<<>>), i |-> j + 1]
                 ELSE ParseElements(s, j, <<>>)
         [] c = "{" ->
              LET j == SkipSpace(s, i + 1)
              IN IF Ch(s, j) = "}" THEN [ok |-> TRUE, v |-> Obj(<<>>), i |-> j + 1]
                 ELSE ParseMembers(s, j, <<>>)
         [] OTHER -> ParseFail

\* JSON.parse(x): x is converted to text first; a SyntaxError is [ok |-> FALSE]
JSONParse(x) ==
    LET s == ToText(x)
        r == ParseValue(s, SkipSpace(s, 1))
    IN IF r.ok /\ SkipSpace(s, r.i) = Len(s) + 1
       THEN [ok |-> TRUE, v |-> r.v]
       ELSE [ok |-> FALSE, message |-> "Unexpected token in JSON"]


(***************************************************************************)
(* Errors                                                                   *)
(***************************************************************************)
\* new HttpError(message, code, headers): the ClassifiedError
HttpError(message, code, hdrs) ==
    [classified |-> TRUE, message |-> message, statusCode |-> code, headers |-> hdrs]

\* any other thrown value: Error, TypeError, ReferenceError, SyntaxError, FetchError
RawError(name, message) ==
    [classified |-> FALSE, name |-> name, message |-> message]

\* error instanceof HttpError
instanceofHttpError(e) == e.classified

(***************************************************************************)
(* Request normalizer (request.js lines 20-37)                              *)
(***************************************************************************)
DefaultContentType == "application/json; charset=utf-8"

\* lodash/defaults(object, source): fills the keys of source that resolve to
\* undefined in object; on a missing object the result is a fresh object the
\* caller drops, so the argument stays as it was
RECURSIVE defaults(_, _)
defaults(object, source) ==
    IF object.t # "object" THEN object
    ELSE IF source = <<>> THEN object
    ELSE LET e == Head(source)
             filled == IF Get(object.o, e.k) = Undefined
                       THEN Obj(Put(object.o, e.k, e.v)) ELSE object
         IN defaults(filled, Tail(source))

\* lines 20-24
SetContentType(o) ==
    IF Truthy(o.body)
    THEN [o EXCEPT !.headers = defaults(o.headers, <<KV("content-type", Str(DefaultContentType))>>)]
    ELSE o

\* the method is left in the caller's casing
KeepMethodCasing(o) == o

\* line 27
UppercaseMethod(o) == [o EXCEPT !.method = toUpperCase(o.method)]

\* lines 31-33
SetEmptyBody(o) ==
    IF o.method \in {"PATCH", "PUT"} /\ ~Truthy(o.body)
    THEN [o EXCEPT !.body = Str("")]
    ELSE o

\* only plain objects are serialized, arrays are passed through
SerializeObjectsOnly(o) ==
    IF isPlainObject(o.body)
    THEN [o EXCEPT !.body = Str(stringify(o.body))]
    ELSE o

\* lines 35-37
SerializeBody(o) ==
    IF isPlainObject(o.body) \/ isArray(o.body)
    THEN [o EXCEPT !.body = Str(stringify(o.body))]
    ELSE o

\* lines 40-42 (legacy strategy only)
DropUserAgent(o) ==
    IF Truthy(o.headers)
    THEN [o EXCEPT !.headers = Obj(Delete(o.headers.o, "user-agent"))]
    ELSE o

Normalize(o) == SerializeBody(SetEmptyBody(UppercaseMethod(SetContentType(o))))

(***************************************************************************)
(* Content-type and status tests shared by the two strategies               *)
(***************************************************************************)
\* /application\/json/.test(contentType)              (lines 100, 167)
IsJsonType(contentType) == Contains(ToText(contentType), "application/json")

\* !contentType || /^text\/|charset=utf-8$/.test(contentType)   (line 171)
IsTextType(contentType) ==
    \/ ~Truthy(contentType)
    \/ StartsWith(ToText(contentType), "text/")
    \/ EndsWith(ToText(contentType), "charset=utf-8")

\* xhr.status >= 400 && xhr.status < 600 || xhr.status < 10     (line 95)
XhrIsError(status) == (status >= 400 /\ status < 600) \/ status < 10

\* response.status >= 400                                       (line 159)
FetchIsError(status) == status >= 400

(***************************************************************************)
(* The exchange on the wire, as each transport shows it                     *)
(***************************************************************************)
\* a response reached the client (status line and headers)
HasResponse(w) == w.kind \in {"response", "aborted"}
\* the whole body arrived too
Complete(w) == w.kind = "response"

\* node-fetch Headers: names are lower case
FetchHeaders(w) == [j \in 1..Len(w.headers) |-> KV(toLowerCase(w.headers[j].k), w.headers[j].v)]
\* response.headers.get(name): null when the header is absent
HeadersGet(w, name) ==
    IF Has(FetchHeaders(w), name) THEN Get(FetchHeaders(w), name) ELSE Null
\* response.headers.location: Headers has no such property
HeadersLocationProperty(w) == Undefined

\* a failed or timed out XMLHttpRequest is DONE with status 0, no headers, no body
xhrStatus(w) == IF Complete(w) THEN w.status ELSE 0
getAllResponseHeaders(w) ==
    IF Complete(w)
    THEN Join([j \in 1..Len(w.headers) |-> w.headers[j].k \o ": " \o w.headers[j].v.s \o "\r\n"], "")
    ELSE ""
xhrResponseText(w) == IF Complete(w) THEN w.body ELSE ""

\* lines 64-76: one header per line matching /^([^:]+): (.*)/
RECURSIVE parseXhrHeaders(_)
parseXhrHeaders(headerStrings) ==
    IF headerStrings = <<>> THEN <<>>
    ELSE LET line == headerStrings[Len(headerStrings)]
             before == parseXhrHeaders(SubSeq(headerStrings, 1, Len(headerStrings) - 1))
             colon == IndexFrom(line, ":", 1)
             cr == IndexFrom(line, "\r", colon + 2)
             last == IF cr = 0 THEN Len(line) ELSE cr - 1
         IN IF colon >= 2 /\ Ch(line, colon + 1) = " "
            THEN Put(before, toLowerCase(SubSeq(line, 1, colon - 1)),
                     Str(SubSeq(line, colon + 2, last)))
            ELSE before

\* lines 88-93: xhr.responseType is never set, so xhr.response is the text
xhrResponseBody(w) ==
    IF xhrResponseText(w) # "" THEN Str(xhrResponseText(w)) ELSE Null

(***************************************************************************)
(* onreadystatechange in state DONE (lines 78-110)                          *)
(* effect: what the handler does to the promise, or the exception it throws *)
(***************************************************************************)
XhrHeaders(o, w) ==
    IF Truthy(o.headers)
    THEN Obj(parseXhrHeaders(split(getAllResponseHeaders(w), "\n")))
    ELSE Str(getAllResponseHeaders(w))

onreadystatechange(o, w) ==
    LET rh == XhrHeaders(o, w)
        status == xhrStatus(w)
        redirect == status >= 300 /\ status <= 399
        responseBody == xhrResponseBody(w)
        contentType == IF rh.t = "object" THEN Get(rh.o, "content-type") ELSE Undefined
        base == [responseHeaders |-> rh, url |-> o.url, reads |-> {}]
    IN CASE redirect /\ rh.t # "object" ->
              \* 'location' in <string>
              base @@ [effect |-> "throw",
                       value |-> RawError("TypeError", Str("Cannot use 'in' operator"))]
         [] redirect /\ rh.t = "object" /\ Has(rh.o, "location") ->
              \* Url is not declared anywhere
              base @@ [effect |-> "throw",
                       value |-> RawError("ReferenceError", Str("Url is not defined"))]
         [] XhrIsError(status) ->
              base @@ [effect |-> "reject", value |-> HttpError(responseBody, status, rh)]
         [] IsJsonType(contentType) ->
              LET parsed == JSONParse(responseBody)
              IN IF parsed.ok
                 THEN [base EXCEPT !.reads = {"json"}]
                        @@ [effect |-> "resolve", value |-> <<parsed.v, rh>>]
                 ELSE [base EXCEPT !.reads = {"json"}]
                        @@ [effect |-> "throw",
                            value |-> RawError("SyntaxError", Str(parsed.message))]
         [] OTHER ->
              \* contentType is not declared in this scope (line 105)
              base @@ [effect |-> "throw",
                       value |-> RawError("ReferenceError", Str("contentType is not defined"))]

(***************************************************************************)
(* Promises                                                                 *)
(***************************************************************************)
Pending == [state |-> "pending"]
Fulfilled(v) == [state |-> "fulfilled", value |-> v]
Rejected(e) == [state |-> "rejected", reason |-> e]
\* the last resolve()/reject() wins
Overwrite(p, q) == q

\* resolve()/reject() of an already settled promise change nothing
Settle(p, q) == IF p.state = "pending" THEN q ELSE p

\* `headers` before line 140 has run (temporal dead zone)
TDZ == [t |-> "tdz"]

(***************************************************************************)
(* fetch: the first .then callback (lines 143-176)                          *)
(* next: where the chain goes; value: the promise the callback hands on     *)
(***************************************************************************)
\* response.text(), response.json(), getBuffer(response): each reads the body
\* and fails when the body stream breaks off
ReadText(w) ==
    IF Complete(w) THEN Fulfilled(Str(w.body))
    ELSE Rejected(RawError("FetchError", Str("Premature close")))
ReadJson(w) ==
    IF ~Complete(w) THEN Rejected(RawError("FetchError", Str("Premature close")))
    ELSE IF JSONParse(Str(w.body)).ok THEN Fulfilled(JSONParse(Str(w.body)).v)
    ELSE Rejected(RawError("FetchError", Str("invalid json response body")))
getBuffer(w) ==
    IF Complete(w) THEN Fulfilled(Buf(w.body))
    ELSE Rejected(RawError("FetchError", Str("Premature close")))

\* lines 146-148
CollectHeaders(h, w) ==
    LET RECURSIVE Fill(_, _)
        Fill(acc, es) == IF es = <<>> THEN acc
                         ELSE Fill(Put(acc, Head(es).k, Head(es).v), Tail(es))
    IN Obj(Fill(h.o, FetchHeaders(w)))

FetchOnResponse(o, w, h) ==
    LET contentType == HeadersGet(w, "content-type")
        hs == CollectHeaders(h, w)
        base == [headers |-> hs, url |-> o.url, reads |-> {}]
    IN CASE w.status = 204 ->
              base @@ [next |-> "then", value |-> Fulfilled(Undefined)]
         [] w.status = 304 ->
              [base EXCEPT !.url = HeadersLocationProperty(w)]
                @@ [next |-> "catch",
                    value |-> Rejected(HttpError(Str("Not modified"), w.status, hs))]
         [] FetchIsError(w.status) ->
              [base EXCEPT !.reads = {"text"}] @@ [next |-> "text", value |-> ReadText(w)]
         [] IsJsonType(contentType) ->
              [base EXCEPT !.reads = {"json"}] @@ [next |-> "then", value |-> ReadJson(w)]
         [] IsTextType(contentType) ->
              [base EXCEPT !.reads = {"text"}] @@ [next |-> "then", value |-> ReadText(w)]
         [] OTHER ->
              [base EXCEPT !.reads = {"buffer"}] @@ [next |-> "then", value |-> getBuffer(w)]

\* a rejected promise skips the .then callbacks and lands in .catch
Route(next, p) == IF p.state = "rejected" THEN "catch" ELSE next

\* every error is wrapped, a ClassifiedError too
RewrapAll(error, h) == HttpError(error.message, 500, h)

\* the .catch callbacks (lines 131-137, 185-191)
Rewrap(error, h) ==
    IF instanceofHttpError(error) THEN error
    ELSE IF h = TDZ
         THEN RawError("ReferenceError", Str("Cannot access 'headers' before initialization"))
         ELSE HttpError(error.message, 500, h)

(***************************************************************************)
(* Actions                                                                  *)
(***************************************************************************)
\* xhr.send() arms the transport: the events this exchange will fire.  A failed
\* or timed out exchange goes to DONE with status 0 and fires its error or
\* timeout event; the two callbacks may run in either order.
EventsOf(w) ==
    CASE w.kind = "response" -> {"done"}
      [] w.kind = "timeout" -> {"done", "timeout"}
      [] OTHER -> {"done", "error"}

Dispatch(via, o) ==
    [via |-> via, method |-> o.method, url |-> o.url, headers |-> o.headers,
     body |-> o.body, timeout |-> o.timeout]

\* no dispatch at all
TransmitNothing(via, o) == <<>>

\* the transport calls one call of request() makes: xhr.send (line 121) or
\* fetch (line 141), once
Transmit(via, o) == <<Dispatch(via, o)>>

\* every call shares the closure variables of the first call
SharedScope(i) == CHOOSE j \in DOMAIN pc : \A k \in DOMAIN pc : j <= k

\* `let responseHeaders` (line 44) and `let headers` (line 140) are declared
\* inside request(): each call has bindings of its own
Scope(i) == i

\* request(requestOptions), up to the point where it returns its promise
Request(i) ==
    /\ pc[i] = "start"
    /\ LET n == Normalize(requestOptions[i])
           o == IF n.xhr THEN DropUserAgent(n) ELSE n
       IN /\ requestOptions' = [requestOptions EXCEPT ![i] = o]
          /\ IF o.xhr
             THEN /\ sent' = [sent EXCEPT ![i] = @ \o Transmit("xhr", o)]
                  /\ readyState' = [readyState EXCEPT ![i] = 1]
                  /\ events' = [events EXCEPT ![i] = EventsOf(wire[i])]
                  /\ pc' = [pc EXCEPT ![i] = "xhr"]
                  /\ UNCHANGED headers
             ELSE /\ sent' = [sent EXCEPT ![i] = @ \o Transmit("fetch", o)]
                  /\ headers' = [headers EXCEPT ![Scope(i)] = Obj(<<>>)]
                  /\ pc' = [pc EXCEPT ![i] = "fetch"]
                  /\ UNCHANGED <<readyState, events>>
    /\ UNCHANGED <<given, wire, responseHeaders, inner, outcome, uncaught, reads>>

\* the handler sees a finished exchange
IsDoneOrLoading(rs) == rs >= 3

\* line 60: the handler goes on only when xhr.readyState is 4 (DONE)
IsDone(rs) == rs = 4

\* the registered onreadystatechange callback, called with xhr.readyState = rs
ReadyStateChange(i, rs) ==
    IF IsDone(rs)
    THEN LET r == onreadystatechange(requestOptions[i], wire[i])
         IN /\ responseHeaders' = [responseHeaders EXCEPT ![Scope(i)] = r.responseHeaders]
            /\ requestOptions' = [requestOptions EXCEPT ![i].url = r.url]
            /\ reads' = [reads EXCEPT ![i] = @ \cup r.reads]
            /\ inner' = [inner EXCEPT ![i] =
                            CASE r.effect = "resolve" -> Settle(@, Fulfilled(r.value))
                              [] r.effect = "reject" -> Settle(@, Rejected(r.value))
                              [] OTHER -> @]
            /\ uncaught' = [uncaught EXCEPT ![i] =
                               IF r.effect = "throw" THEN Append(@, r.value) ELSE @]
    ELSE UNCHANGED <<requestOptions, responseHeaders, reads, inner, uncaught>>

\* readystatechange to HEADERS_RECEIVED or LOADING: the handler returns at line 61
XhrProgress(i) ==
    /\ "done" \in events[i]
    /\ readyState[i] < 3
    /\ HasResponse(wire[i])
    /\ readyState' = [readyState EXCEPT ![i] = @ + 1]
    /\ ReadyStateChange(i, readyState[i] + 1)
    /\ UNCHANGED <<given, wire, pc, sent, events, headers, outcome>>

\* readystatechange to DONE
XhrDone(i) ==
    /\ "done" \in events[i]
    /\ Complete(wire[i]) => readyState[i] = 3
    /\ wire[i].kind = "aborted" => readyState[i] >= 2
    /\ readyState' = [readyState EXCEPT ![i] = 4]
    /\ events' = [events EXCEPT ![i] = @ \ {"done"}]
    /\ ReadyStateChange(i, 4)
    /\ UNCHANGED <<given, wire, pc, sent, headers, outcome>>

\* xhr.onerror (lines 113-115): rejects with the event it is given
XhrError(i) ==
    /\ "error" \in events[i]
    /\ events' = [events EXCEPT ![i] = @ \ {"error"}]
    /\ inner' = [inner EXCEPT ![i] = Settle(@, Rejected(RawError("ProgressEvent", Undefined)))]
    /\ UNCHANGED <<given, requestOptions, wire, pc, sent, readyState, responseHeaders, headers,
                   outcome, uncaught, reads>>

\* xhr.ontimeout (lines 117-119)
XhrTimeout(i) ==
    /\ "timeout" \in events[i]
    /\ events' = [events EXCEPT ![i] = @ \ {"timeout"}]
    /\ inner' = [inner EXCEPT ![i] =
                    Settle(@, Rejected(HttpError(Str("Gateway timeout"), 504,
                                              responseHeaders[Scope(i)])))]
    /\ UNCHANGED <<given, requestOptions, wire, pc, sent, readyState, responseHeaders, headers,
                   outcome, uncaught, reads>>

\* legacy .then (lines 124-129)
LegacyThen(i) ==
    /\ pc[i] = "xhr"
    /\ inner[i].state = "fulfilled"
    /\ outcome' = [outcome EXCEPT ![i] =
                      [state |-> "resolved", data |-> inner[i].value[1],
                       meta |-> inner[i].value[2]]]
    /\ pc' = [pc EXCEPT ![i] = "done"]
    /\ UNCHANGED <<given, requestOptions, wire, sent, readyState, events, responseHeaders,
                   headers, inner, uncaught, reads>>

\* legacy .catch (lines 131-137)
LegacyCatch(i) ==
    /\ pc[i] = "xhr"
    /\ inner[i].state = "rejected"
    /\ outcome' = [outcome EXCEPT ![i] =
                      [state |-> "rejected", error |-> Rewrap(inner[i].reason, headers[Scope(i)])]]
    /\ pc' = [pc EXCEPT ![i] = "done"]
    /\ UNCHANGED <<given, requestOptions, wire, sent, readyState, events, responseHeaders,
                   headers, inner, uncaught, reads>>

\* the fetch promise resolves with a response: first .then (lines 143-176)
FetchResponse(i) ==
    /\ pc[i] = "fetch"
    /\ HasResponse(wire[i])
    /\ LET r == FetchOnResponse(requestOptions[i], wire[i], headers[Scope(i)])
       IN /\ headers' = [headers EXCEPT ![Scope(i)] = r.headers]
          /\ requestOptions' = [requestOptions EXCEPT ![i].url = r.url]
          /\ reads' = [reads EXCEPT ![i] = @ \cup r.reads]
          /\ inner' = [inner EXCEPT ![i] = r.value]
          /\ pc' = [pc EXCEPT ![i] = Route(r.next, r.value)]
    /\ UNCHANGED <<given, wire, sent, readyState, events, responseHeaders, outcome, uncaught>>

\* the fetch promise rejects: network failure or timeout
FetchFails(i) ==
    /\ pc[i] = "fetch"
    /\ ~HasResponse(wire[i])
    /\ inner' = [inner EXCEPT ![i] =
                    Rejected(RawError("FetchError",
                                      IF wire[i].kind = "timeout"
                                      THEN Str("network timeout")
                                      ELSE Str("request failed")))]
    /\ pc' = [pc EXCEPT ![i] = "catch"]
    /\ UNCHANGED <<given, requestOptions, wire, sent, readyState, events, responseHeaders,
                   headers, outcome, uncaught, reads>>

\* the callback on response.text() of an error status (lines 162-164)
FetchThrow(i) ==
    /\ pc[i] = "text"
    /\ inner' = [inner EXCEPT ![i] =
                    Rejected(HttpError(inner[i].value, wire[i].status, headers[Scope(i)]))]
    /\ pc' = [pc EXCEPT ![i] = "catch"]
    /\ UNCHANGED <<given, requestOptions, wire, sent, readyState, events, responseHeaders,
                   headers, outcome, uncaught, reads>>

\* second .then (lines 178-183)
FetchThen(i) ==
    /\ pc[i] = "then"
    /\ outcome' = [outcome EXCEPT ![i] =
                      [state |-> "resolved", data |-> inner[i].value, meta |-> headers[Scope(i)]]]
    /\ pc' = [pc EXCEPT ![i] = "done"]
    /\ UNCHANGED <<given, requestOptions, wire, sent, readyState, events, responseHeaders,
                   headers, inner, uncaught, reads>>

\* .catch (lines 185-191)
FetchCatch(i) ==
    /\ pc[i] = "catch"
    /\ outcome' = [outcome EXCEPT ![i] =
                      [state |-> "rejected", error |-> Rewrap(inner[i].reason, headers[Scope(i)])]]
    /\ pc' = [pc EXCEPT ![i] = "done"]
    /\ UNCHANGED <<given, requestOptions, wire, sent, readyState, events, responseHeaders,
                   headers, inner, uncaught, reads>>

(***************************************************************************)
(* Inputs                                                                   *)
(***************************************************************************)
Methods == {"get", "Put", "pAtCh", "POST"}

JsonObject == Obj(<<KV("a", Num(1)), KV("b", Arr(<<Num(2), Num(3)>>))>>)
JsonArray == Arr(<<Num(1), Str("x")>>)

Bodies == {Undefined, Null, Str(""), Str("hi"), JsonObject, JsonArray, Buf("bin")}

\* the descriptor's headers are a mapping of names to values
HeaderSets ==
    {Obj(<<>>),
     Obj(<<KV("content-type", Str("text/plain"))>>),
     Obj(<<KV("Content-Type", Str("text/plain"))>>),
     Obj(<<KV("user-agent", Str("octokit")), KV("accept", Str("*/*"))>>)}

Timeouts == {Undefined, Num(5)}

Descriptors ==
    [url : {Str("/path")}, method : Methods, headers : HeaderSets, body : Bodies,
     timeout : Timeouts, xhr : BOOLEAN]

\* descriptors that differ only in what the response handling reads
CoreDescriptors ==
    {d \in Descriptors : d.method = "get" /\ d.body = Undefined
                         /\ d.headers = Obj(<<>>)}

Statuses == {200, 204, 301, 304, 404, 599, 600}
ContentTypes ==
    {"", "application/json; charset=utf-8", "text/plain; charset=utf-8", "image/png",
     "application/xml; charset=utf-8", "application/xml; charset=utf-8; v=1"}
Locations == {"", "/new/path"}
BodyTexts == {"", "{\"a\":1,\"b\":[2,3]}", "oops"}

ResponseHeaders(ct, loc) ==
    (IF ct = "" THEN <<>> ELSE <<KV("Content-Type", Str(ct))>>)
    \o (IF loc = "" THEN <<>> ELSE <<KV("location", Str(loc))>>)

Wires ==
    {[kind |-> k, status |-> st, headers |-> ResponseHeaders(ct, loc), body |-> b] :
        k \in {"response"}, st \in Statuses, ct \in ContentTypes, loc \in Locations,
        b \in BodyTexts}
    \cup {[kind |-> k, status |-> st, headers |-> ResponseHeaders(ct, loc), body |-> b] :
        k \in {"aborted"}, st \in Statuses, ct \in ContentTypes, loc \in Locations,
        b \in {""}}
    \cup {[kind |-> k, status |-> 0, headers |-> <<>>, body |-> ""] :
        k \in {"error", "timeout"}}

CoreWires ==
    {w \in Wires : \/ w.kind \in {"error", "timeout"}
                   \/ /\ w.status \in {200, 404}
                      /\ w.headers = ResponseHeaders("application/json; charset=utf-8", "")
                      /\ w.body # ""}

\* a timeout needs a timeout to be set
Inputs ==
    {p \in (Descriptors \X CoreWires) \cup (CoreDescriptors \X Wires) :
        p[2].kind = "timeout" => Truthy(p[1].timeout)}

Start(calls) ==
    /\ pc = [i \in calls |-> "start"]
    /\ sent = [i \in calls |-> <<>>]
    /\ readyState = [i \in calls |-> 0]
    /\ events = [i \in calls |-> {}]
    /\ responseHeaders = [i \in calls |-> Undefined]
    /\ headers = [i \in calls |-> TDZ]
    /\ inner = [i \in calls |-> Pending]
    /\ outcome = [i \in calls |-> Pending]
    /\ uncaught = [i \in calls |-> <<>>]
    /\ reads = [i \in calls |-> {}]

Init ==
    /\ \E p \in Inputs :
          /\ given = (1 :> p[1])
          /\ requestOptions = (1 :> p[1])
          /\ wire = (1 :> p[2])
    /\ Start({1})

Next ==
    \/ \E i \in DOMAIN pc : Request(i)
    \/ \E i \in DOMAIN pc : XhrProgress(i)
    \/ \E i \in DOMAIN pc : XhrDone(i)
    \/ \E i \in DOMAIN pc : XhrError(i)
    \/ \E i \in DOMAIN pc : XhrTimeout(i)
    \/ \E i \in DOMAIN pc : LegacyThen(i)
    \/ \E i \in DOMAIN pc : LegacyCatch(i)
    \/ \E i \in DOMAIN pc : FetchResponse(i)
    \/ \E i \in DOMAIN pc : FetchFails(i)
    \/ \E i \in DOMAIN pc : FetchThrow(i)
    \/ \E i \in DOMAIN pc : FetchThen(i)
    \/ \E i \in DOMAIN pc : FetchCatch(i)

Spec == Init /\ [][Next]_vars

(***************************************************************************)
(* Two calls on the same descriptor and the same exchange, one per strategy *)
(***************************************************************************)
InitParity ==
    /\ \E p \in Inputs :
          /\ ~p[1].xhr
          /\ given = (1 :> p[1]) @@ (2 :> [p[1] EXCEPT !.xhr = TRUE])
          /\ wire = (1 :> p[2]) @@ (2 :> p[2])
    /\ requestOptions = given
    /\ Start({1, 2})

SpecParity == InitParity /\ [][Next]_vars

(***************************************************************************)
(* Two concurrent calls with distinct descriptors and their own exchanges   *)
(***************************************************************************)
PairWires ==
    {w \in Wires : \/ w.kind \in {"error", "timeout"}
                   \/ /\ w.kind = "response"
                      /\ w.status \in {200, 304, 404}
                      /\ w.body = "{\"a\":1,\"b\":[2,3]}"
                      /\ \E ct \in {"application/json; charset=utf-8", "text/plain; charset=utf-8"} :
                            w.headers = ResponseHeaders(ct, "")}

PairInputs ==
    {p \in CoreDescriptors \X PairWires : p[2].kind = "timeout" => Truthy(p[1].timeout)}

\* the server marks each response with the request it answers
Tag(w, id) ==
    IF HasResponse(w) THEN [w EXCEPT !.headers = @ \o <<KV("x-request-id", Str(id))>>] ELSE w

InitPair ==
    /\ \E p \in PairInputs, q \in PairInputs :
          /\ given = (1 :> p[1]) @@ (2 :> [q[1] EXCEPT !.url = Str("/other")])
          /\ wire = (1 :> Tag(p[2], "1")) @@ (2 :> Tag(q[2], "2"))
    /\ requestOptions = given
    /\ Start({1, 2})

SpecPair == InitPair /\ [][Next]_vars

(***************************************************************************)
(* Vocabulary of the properties                                             *)
(***************************************************************************)
Calls == DOMAIN pc
Dispatched(i) == pc[i] # "start"
\* nothing more will happen to call i: every transport event has fired and
\* every scheduled promise callback has run
Quiet(i) ==
    /\ Dispatched(i)
    /\ events[i] = {}
    /\ \/ pc[i] = "done"
       \/ pc[i] = "xhr" /\ inner[i].state = "pending"
Resolved(i) == outcome[i].state = "resolved"
RejectedCall(i) == outcome[i].state = "rejected"
\* rejected with a ClassifiedError of this message and status
RejectedWith(i, message, code) ==
    /\ RejectedCall(i)
    /\ outcome[i].error.classified
    /\ outcome[i].error.message = message
    /\ outcome[i].error.statusCode = code
WireContentType(w) == HeadersGet(w, "content-type")
\* the entries of a header mapping that name the content-type, in any casing
ContentTypeEntries(h) ==
    IF h.t = "object" THEN SelectSeq(h.o, LAMBDA e : toLowerCase(e.k) = "content-type")
    ELSE <<>>
\* a mapping as the set of its entries (property order does not matter)
Entries(h) == IF h.t = "object" THEN {h.o[j] : j \in 1..Len(h.o)} ELSE {h}

(***************************************************************************)
(* C1: a response with status >= 400 never resolves the call; the call      *)
(* rejects with a ClassifiedError whose statusCode is the response status   *)
(* and whose message is the raw body text, under either strategy.           *)
(***************************************************************************)
C1_ErrorStatusRejects ==
    \A i \in Calls :
        (Complete(wire[i]) /\ wire[i].status >= 400) =>
            /\ ~Resolved(i)
            /\ Quiet(i) => RejectedWith(i, Str(wire[i].body), wire[i].status)

(***************************************************************************)
(* C2: every call settles: once the exchange is over and every callback has *)
(* run, the returned promise is resolved with {data, meta} or rejected.     *)
(***************************************************************************)
C2_EveryCallSettles ==
    \A i \in Calls : Quiet(i) => (Resolved(i) \/ RejectedCall(i))

(***************************************************************************)
(* C3: transport parity: on the same descriptor and the same exchange, the  *)
(* fetch call and the legacy call end alike: both resolve with equal data   *)
(* and meta, or both reject with a ClassifiedError of equal message and     *)
(* statusCode.                                                              *)
(***************************************************************************)
SameOutcome(i, j) ==
    \/ /\ Resolved(i) /\ Resolved(j)
       /\ outcome[i].data = outcome[j].data
       /\ Entries(outcome[i].meta) = Entries(outcome[j].meta)
    \/ /\ RejectedCall(i) /\ RejectedCall(j)
       /\ outcome[i].error.classified /\ outcome[j].error.classified
       /\ outcome[i].error.message = outcome[j].error.message
       /\ outcome[i].error.statusCode = outcome[j].error.statusCode

C3_TransportParity ==
    \A i, j \in Calls :
        (/\ Quiet(i) /\ Quiet(j)
         /\ ~given[i].xhr /\ given[j].xhr
         /\ [given[i] EXCEPT !.xhr = TRUE] = given[j]
         /\ wire[i] = wire[j]
         /\ Complete(wire[i]))
        => SameOutcome(i, j)

(***************************************************************************)
(* C4: a 304 response is never a success: the call rejects with             *)
(* ClassifiedError("Not modified", 304) under either strategy.              *)
(***************************************************************************)
C4_NotModifiedRejects ==
    \A i \in Calls :
        (Complete(wire[i]) /\ wire[i].status = 304) =>
            /\ ~Resolved(i)
            /\ Quiet(i) => RejectedWith(i, Str("Not modified"), 304)

(***************************************************************************)
(* C5: an exchange that exceeds the timeout rejects with                    *)
(* ClassifiedError("Gateway timeout", 504), under either strategy and in    *)
(* either order of the DONE and timeout callbacks.                          *)
(***************************************************************************)
C5_TimeoutRejects504 ==
    \A i \in Calls :
        (wire[i].kind = "timeout" /\ Quiet(i)) =>
            RejectedWith(i, Str("Gateway timeout"), 504)

(***************************************************************************)
(* C6: a malformed JSON body under a declared application/json content-type *)
(* makes the call reject with a ClassifiedError of statusCode 500, under    *)
(* either strategy.                                                         *)
(***************************************************************************)
MalformedJson(w) ==
    /\ Complete(w)
    /\ w.status = 200
    /\ IsJsonType(WireContentType(w))
    /\ ~JSONParse(Str(w.body)).ok

C6_MalformedJsonRejects500 ==
    \A i \in Calls :
        (MalformedJson(wire[i]) /\ Quiet(i)) =>
            /\ RejectedCall(i)
            /\ outcome[i].error.classified
            /\ outcome[i].error.statusCode = 500

(***************************************************************************)
(* C7: a 204 response resolves with data undefined and no body reader or    *)
(* parser is invoked, whatever the content-type, under either strategy.     *)
(***************************************************************************)
C7_NoContentUndefined ==
    \A i \in Calls :
        (Complete(wire[i]) /\ wire[i].status = 204) =>
            /\ reads[i] = {}
            /\ Quiet(i) => (Resolved(i) /\ outcome[i].data = Undefined)

(***************************************************************************)
(* C8: a PUT or PATCH descriptor, in any letter casing, that has no body is *)
(* dispatched with the empty string as body, never undefined.               *)
(***************************************************************************)
NoBody(d) == d.body \in {Undefined, Null}

C8_EmptyBodyForPutPatch ==
    \A i \in Calls :
        (Dispatched(i) /\ toLowerCase(given[i].method) \in {"put", "patch"}
            /\ NoBody(given[i])) =>
            /\ Len(sent[i]) = 1
            /\ sent[i][1].body = Str("")

C8_Witness ==
    \E i \in Calls :
        /\ Dispatched(i)
        /\ given[i].method = "pAtCh"
        /\ given[i].body = Undefined
        /\ sent[i][1].body = Str("")
        /\ sent[i][1].method = "PATCH"

(***************************************************************************)
(* C9: normalization sets content-type to the JSON default whenever the     *)
(* descriptor has a body and its headers lack a content-type; it never      *)
(* changes or duplicates a content-type the caller supplied; a descriptor   *)
(* without a body gets no content-type added.                               *)
(***************************************************************************)
C9_ContentTypeDefaulting ==
    \A i \in Calls :
        Dispatched(i) =>
            LET before == ContentTypeEntries(given[i].headers)
                after == ContentTypeEntries(sent[i][1].headers)
            IN /\ (Truthy(given[i].body) /\ before = <<>>) =>
                      after = <<KV("content-type", Str(DefaultContentType))>>
               /\ before # <<>> => after = before
               /\ ~Truthy(given[i].body) => after = before

(***************************************************************************)
(* C10: a plain-object or array body is dispatched as the JSON text of the  *)
(* original value (parsing the dispatched text gives the original back); a  *)
(* string body is dispatched unchanged.                                     *)
(***************************************************************************)
C10_BodySerialized ==
    \A i \in Calls :
        Dispatched(i) =>
            /\ (isPlainObject(given[i].body) \/ isArray(given[i].body)) =>
                  /\ sent[i][1].body.t = "string"
                  /\ JSONParse(sent[i][1].body).ok
                  /\ JSONParse(sent[i][1].body).v = given[i].body
            /\ given[i].body.t = "string" => sent[i][1].body = given[i].body

C10_Witness ==
    \E i \in Calls :
        /\ Dispatched(i)
        /\ given[i].body = JsonArray
        /\ sent[i][1].body = Str("[1,\"x\"]")

(***************************************************************************)
(* C11: in the fetch strategy a response that is not 204, not 304 and below *)
(* 400 is read by content-type: as JSON for application/json types; as text *)
(* when the content-type is absent, starts with text/, or states            *)
(* charset=utf-8 anywhere; as a raw byte buffer otherwise.  A response of   *)
(* type 'text/plain; charset=utf-8' resolves with the raw text as data.     *)
(***************************************************************************)
\* the reader the content-type calls for
ReaderFor(contentType) ==
    IF Truthy(contentType) /\ Contains(ToText(contentType), "application/json") THEN "json"
    ELSE IF \/ ~Truthy(contentType)
            \/ StartsWith(ToText(contentType), "text/")
            \/ Contains(ToText(contentType), "charset=utf-8")
         THEN "text"
         ELSE "buffer"

\* a fetch call whose response went through the content-type dispatch
BodyDispatched(i) ==
    /\ sent[i] # <<>> /\ sent[i][1].via = "fetch"
    /\ pc[i] \notin {"start", "fetch"}
    /\ HasResponse(wire[i])
    /\ wire[i].status \notin {204, 304}
    /\ wire[i].status < 400

C11_ReaderByContentType ==
    \A i \in Calls :
        BodyDispatched(i) =>
            /\ reads[i] = {ReaderFor(WireContentType(wire[i]))}
            /\ (Resolved(i) /\ WireContentType(wire[i]) = Str("text/plain; charset=utf-8"))
                   => outcome[i].data = Str(wire[i].body)

(***************************************************************************)
(* C12: in the legacy strategy a raw (unclassified) error from the error    *)
(* callback rejects the call with a ClassifiedError of statusCode 500 and   *)
(* the raw error's message; a ClassifiedError from the DONE or the timeout  *)
(* callback reaches the caller unchanged.                                   *)
(***************************************************************************)
\* a legacy call whose .catch has run
LegacyCaught(i) ==
    /\ sent[i] # <<>> /\ sent[i][1].via = "xhr"
    /\ pc[i] = "done"
    /\ inner[i].state = "rejected"

C12_LegacyRewrap ==
    \A i \in Calls :
        LegacyCaught(i) =>
            /\ RejectedCall(i)
            /\ IF instanceofHttpError(inner[i].reason)
               THEN outcome[i].error = inner[i].reason
               ELSE /\ instanceofHttpError(outcome[i].error)
                    /\ outcome[i].error.statusCode = 500
                    /\ outcome[i].error.message = inner[i].reason.message

(***************************************************************************)
(* C13: in the fetch strategy an error that is already a ClassifiedError    *)
(* reaches the caller unchanged; any other error (network failure, body     *)
(* read failure, malformed JSON) is rejected as a ClassifiedError with the  *)
(* original message, statusCode 500 and the response headers collected so   *)
(* far, which are empty when no response arrived.                           *)
(***************************************************************************)
\* a fetch call whose .catch has run
FetchCaught(i) ==
    /\ sent[i] # <<>> /\ sent[i][1].via = "fetch"
    /\ pc[i] = "done"
    /\ inner[i].state = "rejected"

\* the response headers as the fetch strategy has collected them
CollectedSoFar(w) ==
    IF HasResponse(w)
    THEN {KV(toLowerCase(w.headers[j].k), w.headers[j].v) : j \in 1..Len(w.headers)}
    ELSE {}

C13_FetchRewrap ==
    \A i \in Calls :
        FetchCaught(i) =>
            /\ RejectedCall(i)
            /\ IF instanceofHttpError(inner[i].reason)
               THEN outcome[i].error = inner[i].reason
               ELSE /\ instanceofHttpError(outcome[i].error)
                    /\ outcome[i].error.statusCode = 500
                    /\ outcome[i].error.message = inner[i].reason.message
                    /\ outcome[i].error.headers.t = "object"
                    /\ Entries(outcome[i].error.headers) = CollectedSoFar(wire[i])

\* a network failure and a malformed JSON body, both wrapped
C13_Witness ==
    \E i \in Calls :
        /\ FetchCaught(i)
        /\ ~instanceofHttpError(inner[i].reason)
        /\ outcome[i].error.statusCode = 500
        /\ \/ wire[i].kind = "error" /\ outcome[i].error.headers = Obj(<<>>)
           \/ MalformedJson(wire[i]) /\ outcome[i].error.headers # Obj(<<>>)

(***************************************************************************)
(* C14: in the legacy strategy a completed exchange is rejected with        *)
(* ClassifiedError(body, status, headers) exactly when its status is in     *)
(* [400,599] or below 10; every other completed exchange resolves with      *)
(* {data, meta: headers}, whatever its content-type.                        *)
(***************************************************************************)
\* a legacy call on a completed exchange, after its last callback
LegacyCompleted(i) ==
    /\ sent[i] # <<>> /\ sent[i][1].via = "xhr"
    /\ Complete(wire[i])
    /\ readyState[i] = 4
    /\ Quiet(i)

C14_LegacyClassification ==
    \A i \in Calls :
        LegacyCompleted(i) =>
            IF XhrIsError(wire[i].status)
            THEN /\ RejectedCall(i)
                 /\ outcome[i].error = HttpError(xhrResponseBody(wire[i]), wire[i].status,
                                                 XhrHeaders(requestOptions[i], wire[i]))
            ELSE /\ Resolved(i)
                 /\ outcome[i].meta = XhrHeaders(requestOptions[i], wire[i])

(***************************************************************************)
(* C15: in the legacy strategy, when a completed exchange has a status in   *)
(* 300-399 and a location response header, the descriptor's url becomes the *)
(* redirect target, no second request is dispatched, and the call still     *)
(* settles.                                                                 *)
(***************************************************************************)
\* the response carries a location header
HasLocation(w) == HeadersGet(w, "location") # Null

C15_LegacyRedirect ==
    \A i \in Calls :
        (/\ LegacyCompleted(i)
         /\ wire[i].status >= 300 /\ wire[i].status <= 399
         /\ HasLocation(wire[i]))
            => /\ requestOptions[i].url = HeadersGet(wire[i], "location")
               /\ Len(sent[i]) = 1
               /\ outcome[i].state # "pending"

(***************************************************************************)
(* C16: in the fetch strategy, after a 304 response that carries a location *)
(* header, the descriptor's url is the value of that header when the call   *)
(* rejects.                                                                 *)
(***************************************************************************)
C16_NotModifiedUrl ==
    \A i \in Calls :
        (/\ sent[i] # <<>> /\ sent[i][1].via = "fetch"
         /\ wire[i].status = 304
         /\ HasResponse(wire[i])
         /\ HasLocation(wire[i])
         /\ RejectedCall(i))
            => requestOptions[i].url = HeadersGet(wire[i], "location")

(***************************************************************************)
(* C17: in the legacy strategy a ready-state-change event in a state before *)
(* DONE is a no-op: it reads no response data, changes neither the          *)
(* descriptor nor the collected headers and does not settle the promise;    *)
(* response processing happens only in state DONE.                          *)
(***************************************************************************)
\* call i went out through XMLHttpRequest
ViaXhr(i) == sent[i] # <<>> /\ sent[i][1].via = "xhr"

\* what the onreadystatechange handler of call i can touch
HandlerState(i) ==
    <<requestOptions[i], responseHeaders[i], reads[i], inner[i], outcome[i], uncaught[i]>>

C17_IntermediateNoOp ==
    [][\A i \in Calls :
          /\ (ViaXhr(i) /\ readyState'[i] # readyState[i] /\ readyState'[i] < 4)
                => HandlerState(i)' = HandlerState(i)
          /\ (ViaXhr(i) /\ <<responseHeaders[i], reads[i]>>' # <<responseHeaders[i], reads[i]>>)
                => readyState[i] < 4 /\ readyState'[i] = 4]_vars

\* two intermediate events have fired on a complete exchange and left no trace
C17_Witness ==
    \E i \in Calls :
        /\ pc[i] = "xhr"
        /\ readyState[i] = 3
        /\ Complete(wire[i])
        /\ wire[i].body # ""
        /\ responseHeaders[i] = Undefined
        /\ reads[i] = {}
        /\ inner[i] = Pending
        /\ uncaught[i] = <<>>

(***************************************************************************)
(* C18: each call performs exactly one network exchange under either        *)
(* strategy, one fetch call or one xhr.send: never zero once the call is    *)
(* made and never more, also after a redirect status, an error status, a    *)
(* transport error or a timeout.                                            *)
(***************************************************************************)
C18_ExactlyOneExchange ==
    \A i \in Calls :
        /\ ~Dispatched(i) => sent[i] = <<>>
        /\ Dispatched(i) =>
              /\ Len(sent[i]) = 1
              /\ sent[i][1].via = IF given[i].xhr THEN "xhr" ELSE "fetch"

\* a redirect with a location header has been handled to the end: still one exchange
C18_Witness ==
    \E i \in Calls :
        /\ Quiet(i)
        /\ Complete(wire[i])
        /\ wire[i].status = 301
        /\ HasLocation(wire[i])
        /\ Len(sent[i]) = 1

(***************************************************************************)
(* C19: two in-flight calls made with distinct descriptors are independent  *)
(* under every interleaving: a step of one call changes nothing of the      *)
(* other call, so each outcome depends only on the call's own descriptor    *)
(* and response, and the headers collected for one call never appear in the *)
(* other call's meta or error.                                              *)
(***************************************************************************)
\* everything the program holds for call i
CallState(i) ==
    <<given[i], requestOptions[i], wire[i], pc[i], sent[i], readyState[i], events[i],
      responseHeaders[i], headers[i], inner[i], outcome[i], uncaught[i], reads[i]>>

\* the headers an outcome carries: its meta, or the headers of its ClassifiedError
OutcomeHeaders(i) ==
    IF Resolved(i) THEN outcome[i].meta
    ELSE IF RejectedCall(i) /\ instanceofHttpError(outcome[i].error)
         THEN outcome[i].error.headers
         ELSE Undefined

HeadersSeparate ==
    \A i \in Calls :
        OutcomeHeaders(i).t = "object"
            => Entries(OutcomeHeaders(i)) \subseteq CollectedSoFar(wire[i])

C19_CallsIndependent ==
    /\ []HeadersSeparate
    /\ [][\E i \in Calls : \A j \in Calls \ {i} : CallState(j)' = CallState(j)]_vars

\* one call has settled with its own headers while the other, its headers
\* collected, is still in flight
C19_Witness ==
    \E i, j \in Calls :
        /\ i # j
        /\ given[i].url # given[j].url
        /\ Resolved(i)
        /\ KV("x-request-id", wire[i].headers[Len(wire[i].headers)].v) \in Entries(outcome[i].meta)
        /\ pc[j] = "then"
        /\ headers[j].t = "object" /\ headers[j].o # <<>>

(***************************************************************************)
(* C20: in the legacy strategy the first of the DONE, error and timeout     *)
(* callbacks that settles the call fixes its outcome: resolved and rejected *)
(* are absorbing, so a callback that fires later changes neither the        *)
(* outcome nor the error the caller observes.                               *)
(***************************************************************************)
C20_SettledIsAbsorbing ==
    [][\A i \in Calls :
          ViaXhr(i) =>
              /\ inner[i].state # "pending" => inner'[i] = inner[i]
              /\ outcome[i].state # "pending" => outcome'[i] = outcome[i]]_vars

\* the timeout callback rejected the call, the DONE callback ran afterwards
C20_Witness ==
    \E i \in Calls :
        /\ ViaXhr(i)
        /\ wire[i].kind = "timeout"
        /\ readyState[i] = 4
        /\ events[i] = {}
        /\ inner[i] = Rejected(HttpError(Str("Gateway timeout"), 504, Undefined))
        /\ RejectedWith(i, Str("Gateway timeout"), 504)

====
